---- MODULE Spec2Model ----
(***************************************************************************)
(* MayaUsbDevice: the AOAP streaming device of MayaUsbStreamer.            *)
(*                                                                         *)
(* Threads: the host thread (waitHandshakeAsync, beginReadLoop,            *)
(* beginSendLoop, the destructor), the render thread (sendStereo) and the  *)
(* detached worker threads started by InterruptibleThread.  A step of the  *)
(* model is one access to shared state (an atomic, the mutex, the          *)
(* condition variable, the USB handle) together with the thread-local code *)
(* around it.                                                              *)
(***************************************************************************)
EXTENDS Integers, Sequences, FiniteSets, TLC

\* ---------------------------------------------------------------- bounds
\* Worker threads one device instance starts during a run.
MaxWorkers == 3
\* Entries kept of the record of the writes on the OUT endpoint.
MaxWire == 4
\* Buffers a read loop is let deliver to its callback.
MaxFrames == 2
\* Endpoints of interface 0, alternate setting 0.
MaxEndpoints == 3

\* ------------------------------------------------------ program constants
BUFFER_LEN == 16384
HEADER_LEN == 4

\* ------------------------------------------------------------ input sets
\* Calls of sendStereo: the format, the pixels and the size in desc.
Submissions ==
    {[data |-> "imgA",
      desc |-> [fFormat |-> "kR32G32B32A32_FLOAT", fWidth |-> 8, fHeight |-> 4]],
     [data |-> "imgB",
      desc |-> [fFormat |-> "kR8G8B8A8_UNORM", fWidth |-> 6, fHeight |-> 6]],
     [data |-> "imgC",
      desc |-> [fFormat |-> "kR8G8B8A8_UINT", fWidth |-> 2, fHeight |-> 2]]}
\* Endpoint addresses the constructor may have recorded (0: not present).
InEndpoints == {0, 129}
OutEndpoints == {0, 1}
\* Byte counts a bulk read that falls short may report.
ReadCounts == {512}
Statuses == {"ok", "timeout", "error"}

VARIABLES
    inEndpoint,       \* _inEndpoint
    outEndpoint,      \* _outEndpoint
    handshake,        \* _handshake (atomic)
    sendReady,        \* _sendReady
    rgbImageBuffer,   \* contents of _rgbImageBuffer
    jpegBufferWidth,  \* _jpegBufferWidth
    jpegBufferHeight, \* _jpegBufferHeight
    jpegBufferSize,   \* _jpegBufferSize
    sendMutex,        \* owner of _sendMutex: 0 free, Render, or a worker
    receiveWorker,    \* _receiveWorker: 0 null, else index into workers
    sendWorker,       \* _sendWorker: 0 null, else index into workers
    workers,          \* every thread started by an InterruptibleThread
    host,             \* the host thread: position and last return value
    render,           \* the render thread inside sendStereo
    wire,             \* writes on the OUT endpoint since the last frame
                      \* boundary at which the stream was in step
    freed,            \* the destructor has released buffers and handle
    verify,           \* one run of the handshake verification by itself
    accessory,        \* one call of convertToAccessory
    scan              \* the constructor's loop over the endpoints

mainVars == <<inEndpoint, outEndpoint, handshake, sendReady, rgbImageBuffer,
              jpegBufferWidth, jpegBufferHeight, jpegBufferSize, sendMutex,
              receiveWorker, sendWorker, workers, host, render, wire, freed>>
auxVars == <<verify, accessory, scan>>
vars == <<mainVars, auxVars>>

devVars == <<inEndpoint, outEndpoint>>
frameVars == <<rgbImageBuffer, jpegBufferWidth, jpegBufferHeight>>

Render == -1
NoDesc == [fFormat |-> "none", fWidth |-> 0, fHeight |-> 0]
WorkerIds == 1..Len(workers)

\* No verification under way.
VerifyIdle ==
    [pc |-> "idle", at |-> 0, val |-> 0, read |-> 0, i |-> 0, success |-> FALSE]

\* convertToAccessory not called: nothing requested, no outcome.
AccessoryIdle ==
    [pc |-> "idle", protocolVersion |-> 0, index |-> 0, log |-> <<>>,
     status |-> "none", result |-> "none"]

\* The constructor has returned; its endpoint list is gone.
ScanOver == [pc |-> "done", endpoint |-> <<>>, i |-> 0]

\* ------------------------------------------------------------- helpers

Min(a, b) == IF a < b THEN a ELSE b

\* InterruptibleThread(func): a fresh token, false, and a detached thread
\* at the first statement of func.
InterruptibleThread(kind, first) ==
    [kind |-> kind, pc |-> first, cancel |-> FALSE,
     cancelled |-> FALSE, status |-> "timeout", read |-> 0, match |-> FALSE,
     success |-> FALSE, error |-> FALSE, written |-> 0, chunk |-> 0,
     i |-> 0, frames |-> 0, calls |-> 0, arg |-> "none", term |-> 0]

\* InterruptibleThread::cancel() on worker w (0: no such worker).
Cancel(ws, w) == IF w = 0 THEN ws ELSE [ws EXCEPT ![w].cancel = TRUE]

\* InterruptibleThread::isCancelled()
isCancelled(w) == workers[w].cancel

\* supportsRasterFormat / the cases of the switch in sendStereo.
\* (variant: the default case falls into the UNORM case)
supportsAnyRasterFormat(format) == TRUE
supportsRasterFormat(format) ==
    format \in {"kR32G32B32A32_FLOAT", "kR8G8B8A8_UNORM"}

\* ImageUtils::decomposeCheckerboardStereo{Float,Uchar}: what the staging
\* buffer holds afterwards, as a function of the source pixels and format.
decomposeCheckerboardStereo(format, data) ==
    IF format = "kR32G32B32A32_FLOAT" THEN <<"rgbx-from-float", data>>
    ELSE <<"rgbx-from-uchar", data>>

\* EndianUtils::nativeToBig on a uint32: the four bytes in wire order.
\* (The cast to uint32_t keeps the low four bytes.)
nativeToBig(n) ==
    <<(n \div 16777216) % 256, (n \div 65536) % 256, (n \div 256) % 256,
      n % 256>>

\* What a peer reads back from four header bytes.
bigToNative(b) == ((b[1] * 256 + b[2]) * 256 + b[3]) * 256 + b[4]

\* std::condition_variable::notify_one: one of the threads blocked in
\* wait() is released, if there is one; otherwise nothing happens.
Blocked(ws) == {w \in 1..Len(ws) : ws[w].pc = "blocked"}
NotifyOne(ws) ==
    IF Blocked(ws) = {} THEN {ws}
    ELSE {[ws EXCEPT ![w].pc = "woken"] : w \in Blocked(ws)}

\* Byte counts a bulk write of req bytes may report as transferred.
WrittenCounts(req) == {req \div 2, req}

\* The record of OUT writes.  It restarts at a header or termination
\* write that follows a complete frame or a termination frame, and keeps
\* at most MaxWire entries.
PayloadSent(log) ==
    LET Sum[k \in 0..Len(log)] ==
          IF k = 0 THEN 0
          ELSE Sum[k - 1] + (IF log[k].kind = "chunk" THEN log[k].written ELSE 0)
    IN Sum[Len(log)]
FrameComplete(log) ==
    \/ log = <<>>
    \/ log[1].kind = "term"
    \/ /\ log[1].kind = "header"
       /\ log[1].written = HEADER_LEN
       /\ \A k \in 2..Len(log) : log[k].kind = "chunk"
       /\ PayloadSent(log) = bigToNative(log[1].bytes)
Written(log, rec) ==
    IF rec.kind # "chunk" /\ FrameComplete(log) THEN <<rec>>
    ELSE IF Len(log) < MaxWire THEN Append(log, rec)
    ELSE log

\* ---------------------------------------------------------------- Init

\* The members as the initializer list and the default constructors of
\* the constructor leave them, the endpoint members apart.
Constructed ==
    /\ handshake = FALSE
    /\ sendReady = FALSE
    /\ rgbImageBuffer = <<"indeterminate", "none">>
    /\ jpegBufferWidth = 0
    /\ jpegBufferHeight = 0
    /\ jpegBufferSize = 0
    /\ sendMutex = 0
    /\ receiveWorker = 0
    /\ sendWorker = 0
    /\ workers = <<>>
    /\ host = [pc |-> "idle", fresh |-> 0, ret |-> "none"]
    /\ render = [pc |-> "idle", data |-> "none", desc |-> NoDesc,
                 ret |-> "none"]
    /\ wire = <<>>
    /\ freed = FALSE
    /\ verify = VerifyIdle
    /\ accessory = AccessoryIdle

\* The state after a successful construction.
Init ==
    /\ Constructed
    /\ inEndpoint \in InEndpoints
    /\ outEndpoint \in OutEndpoints
    /\ scan = ScanOver

\* ------------------------------------------------------- the host thread

Alive == host.pc \in {"idle", "assign"}

\* The preconditions of waitHandshakeAsync, beginReadLoop, beginSendLoop.
CanWaitHandshake == inEndpoint # 0 /\ ~handshake
CanBeginReadLoop == inEndpoint # 0 /\ handshake
\* (variant: the test of _handshake left out)
CanBeginSendLoopNoHandshake == outEndpoint # 0
CanBeginSendLoop == outEndpoint # 0 /\ handshake

\* A begin call that fails its precondition: return false, nothing else.
Refuse ==
    /\ host' = [host EXCEPT !.ret = "false"]
    /\ UNCHANGED <<auxVars, devVars, handshake, sendReady, frameVars,
                   jpegBufferSize, sendMutex, receiveWorker, sendWorker,
                   workers, render, wire, freed>>

\* make_shared<InterruptibleThread>(...): the new thread exists from here
\* on; the assignment to the member is the host's next step.
Start(kind, first) ==
    /\ Len(workers) < MaxWorkers
    /\ workers' = Append(workers, InterruptibleThread(kind, first))
    /\ host' = [pc |-> "assign", fresh |-> Len(workers) + 1, ret |-> "none"]

waitHandshakeAsync ==
    /\ host.pc = "idle"
    /\ IF CanWaitHandshake
       THEN /\ Start("handshake", "flush")
            /\ UNCHANGED <<auxVars, devVars, handshake, sendReady, frameVars,
                           jpegBufferSize, sendMutex, receiveWorker,
                           sendWorker, render, wire, freed>>
       ELSE Refuse

beginReadLoop ==
    /\ host.pc = "idle"
    /\ IF CanBeginReadLoop
       THEN /\ Start("read", "loop")
            /\ UNCHANGED <<auxVars, devVars, handshake, sendReady, frameVars,
                           jpegBufferSize, sendMutex, receiveWorker,
                           sendWorker, render, wire, freed>>
       ELSE Refuse

beginSendLoop ==
    /\ host.pc = "idle"
    /\ IF CanBeginSendLoop
       THEN /\ sendReady' = FALSE
            /\ Start("send", "lock")
            /\ UNCHANGED <<auxVars, devVars, handshake, frameVars,
                           jpegBufferSize, sendMutex, receiveWorker,
                           sendWorker, render, wire, freed>>
       ELSE Refuse

\* The assignment to _receiveWorker / _sendWorker: the shared_ptr drops
\* the worker it held, whose destructor cancels it, and the call returns.
AssignWorker ==
    /\ host.pc = "assign"
    /\ IF workers[host.fresh].kind = "send"
       THEN /\ workers' = Cancel(workers, sendWorker)
            /\ sendWorker' = host.fresh
            /\ UNCHANGED receiveWorker
       ELSE /\ workers' = Cancel(workers, receiveWorker)
            /\ receiveWorker' = host.fresh
            /\ UNCHANGED sendWorker
    /\ host' = [pc |-> "idle", fresh |-> 0, ret |-> "true"]
    /\ UNCHANGED <<auxVars, devVars, handshake, sendReady, frameVars,
                   jpegBufferSize, sendMutex, render, wire, freed>>

\* ~MayaUsbDevice: cancel the workers the members hold and wake one
\* waiter of the condition variable; with nothing to cancel there is no
\* sleep and the buffers and the handle are released at once.
Receiving == receiveWorker # 0 /\ ~isCancelled(receiveWorker)
Sending == sendWorker # 0 /\ ~isCancelled(sendWorker)

Teardown ==
    /\ host.pc = "idle"
    /\ render.pc = "idle"
    /\ LET r == IF Receiving THEN Cancel(workers, receiveWorker) ELSE workers
           s == IF Sending THEN Cancel(r, sendWorker) ELSE r
       IN workers' \in (IF Sending THEN NotifyOne(s) ELSE {s})
    /\ IF Receiving \/ Sending
       THEN /\ host' = [host EXCEPT !.ret = "none", !.pc = "sleep"]
            /\ UNCHANGED freed
       ELSE /\ host' = [host EXCEPT !.ret = "none", !.pc = "destroyed"]
            /\ freed' = TRUE
    /\ UNCHANGED <<auxVars, devVars, handshake, sendReady, frameVars,
                   jpegBufferSize, sendMutex, receiveWorker, sendWorker,
                   render, wire>>

\* sleep_for(2 s): taken to be long enough for every worker that is able
\* to run to reach its end; a worker blocked in the condition wait is not.
SleepOver == \A w \in WorkerIds : workers[w].pc \in {"done", "blocked"}

\* The rest of the destructor, after the sleep: delete[] _rgbImageBuffer,
\* tjFree, libusb_release_interface, libusb_close.
TeardownFree ==
    /\ host.pc = "sleep"
    /\ SleepOver
    /\ freed' = TRUE
    /\ host' = [host EXCEPT !.pc = "destroyed"]
    /\ UNCHANGED <<auxVars, devVars, handshake, sendReady, frameVars,
                   jpegBufferSize, sendMutex, receiveWorker, sendWorker,
                   workers, render, wire>>

\* ----------------------------------------------- the render thread

\* _sendMutex.try_lock()
\* (variant: the result of try_lock not tested)
TryLockUntested == TRUE
TryLock == sendMutex = 0

SendStereoTryLock(data, desc) ==
    /\ Alive
    /\ render.pc = "idle"
    /\ IF TryLock
       THEN /\ sendMutex' = Render
            /\ render' = [pc |-> "locked", data |-> data, desc |-> desc,
                          ret |-> "none"]
       ELSE /\ UNCHANGED sendMutex
            /\ render' = [pc |-> "busy", data |-> data, desc |-> desc,
                          ret |-> "false"]
    /\ UNCHANGED <<auxVars, devVars, handshake, sendReady, frameVars,
                   jpegBufferSize, receiveWorker, sendWorker, workers, host,
                   wire, freed>>

\* The body of sendStereo under the lock.
\* (variant: the test of _sendReady left out)
AcceptsWhilePending(format) == supportsRasterFormat(format)
Accepts(format) == ~sendReady /\ supportsRasterFormat(format)

SendStereoStage ==
    /\ render.pc = "locked"
    /\ IF Accepts(render.desc.fFormat)
       THEN /\ rgbImageBuffer' =
                   decomposeCheckerboardStereo(render.desc.fFormat, render.data)
            /\ jpegBufferWidth' = render.desc.fWidth
            /\ jpegBufferHeight' = render.desc.fHeight \div 2
            /\ sendReady' = TRUE
            /\ workers' \in NotifyOne(workers)
            /\ render' = [render EXCEPT !.pc = "unlock", !.ret = "true"]
       ELSE /\ render' = [render EXCEPT !.pc = "unlock", !.ret = "false"]
            /\ UNCHANGED <<sendReady, frameVars, workers>>
    /\ UNCHANGED <<auxVars, devVars, handshake, jpegBufferSize, sendMutex,
                   receiveWorker, sendWorker, host, wire, freed>>

\* return: the lock_guard, if there is one, releases the mutex.
SendStereoReturn ==
    /\ render.pc \in {"unlock", "busy"}
    /\ sendMutex' = IF render.pc = "unlock" THEN 0 ELSE sendMutex
    /\ render' = [pc |-> "idle", data |-> "none", desc |-> NoDesc,
                  ret |-> "none"]
    /\ UNCHANGED <<auxVars, devVars, handshake, sendReady, frameVars,
                   jpegBufferSize, receiveWorker, sendWorker, workers, host,
                   wire, freed>>

\* ------------------------------------------------ worker threads, common

Set(w, r) == workers' = [workers EXCEPT ![w] = r]

\* Outcomes of a bulk read: the status, the count reported in read and
\* whether the bytes received carry the pattern byte[i] = i mod 256.
InOutcomes ==
    {[status |-> "timeout", read |-> 0, match |-> FALSE],
     [status |-> "error", read |-> 0, match |-> FALSE],
     [status |-> "error", read |-> BUFFER_LEN, match |-> TRUE]} \cup
    {[status |-> "ok", read |-> BUFFER_LEN, match |-> m] : m \in BOOLEAN} \cup
    {[status |-> "ok", read |-> n, match |-> FALSE] : n \in ReadCounts}

\* The last statement of every worker, cancel->store(true), and its end.
Exit(me) == [me EXCEPT !.pc = "done", !.cancel = TRUE]

\* ------------------------------------------- the handshake worker

\* flushInputBuffer: 10 ms reads until one does not return success.
HsFlush(w) ==
    /\ workers[w].kind = "handshake"
    /\ workers[w].pc = "flush"
    /\ \E st \in Statuses :
         Set(w, [workers[w] EXCEPT !.pc = IF st = "ok" THEN "flush" ELSE "loop"])
    /\ UNCHANGED <<auxVars, devVars, handshake, sendReady, frameVars,
                   jpegBufferSize, sendMutex, receiveWorker, sendWorker, host,
                   render, wire, freed>>

\* The verification of the bytes read.
Verify(read, match) == read = BUFFER_LEN /\ match

\* What follows the loop: nothing but the end if cancellation was seen,
\* else the verification (the buffer is not read again after it).
\* (variant: the result is reported whether or not cancellation was seen)
HsAfterLoopReportsAlways(me) ==
    [me EXCEPT !.success = Verify(me.read, me.match),
               !.status = "none", !.read = 0, !.match = FALSE, !.pc = "store"]
HsAfterLoop(me) ==
    IF me.cancelled THEN Exit(me)
    ELSE [me EXCEPT !.success = Verify(me.read, me.match),
                    !.status = "none", !.read = 0, !.match = FALSE,
                    !.pc = "store"]

\* The loop condition; then either the body of the loop (one bulk read on
\* the IN endpoint, 500 ms) or what follows the loop up to the store.
HsLoop(w) ==
    /\ workers[w].kind = "handshake"
    /\ workers[w].pc = "loop"
    /\ LET me == [workers[w] EXCEPT !.cancelled = workers[w].cancel] IN
       IF ~me.cancelled /\ me.status = "timeout"
       THEN \E o \in InOutcomes :
              Set(w, [me EXCEPT !.status = o.status, !.read = o.read,
                                !.match = o.match])
       ELSE Set(w, HsAfterLoop(me))
    /\ UNCHANGED <<auxVars, devVars, handshake, sendReady, frameVars,
                   jpegBufferSize, sendMutex, receiveWorker, sendWorker, host,
                   render, wire, freed>>

\* _handshake.store(success)
HsStore(w) ==
    /\ workers[w].kind = "handshake"
    /\ workers[w].pc = "store"
    /\ handshake' = workers[w].success
    /\ Set(w, [workers[w] EXCEPT !.pc = "callback"])
    /\ UNCHANGED <<auxVars, devVars, sendReady, frameVars, jpegBufferSize,
                   sendMutex, receiveWorker, sendWorker, host, render, wire,
                   freed>>

\* callback(success), and the end of the worker.
HsCallback(w) ==
    /\ workers[w].kind = "handshake"
    /\ workers[w].pc = "callback"
    /\ Set(w, Exit([workers[w] EXCEPT
                      !.calls = @ + 1,
                      !.arg = IF workers[w].success THEN "true" ELSE "false"]))
    /\ UNCHANGED <<auxVars, devVars, handshake, sendReady, frameVars,
                   jpegBufferSize, sendMutex, receiveWorker, sendWorker, host,
                   render, wire, freed>>

\* ------------------------------------------------ the read-loop worker

\* (variant: the loop goes on after a timeout only)
RetriesAfterTimeout(status) == status = "timeout"
\* status == 0 || status == LIBUSB_ERROR_TIMEOUT
Retries(status) == status \in {"ok", "timeout"}

\* The loop condition and, when it fails, the test after the loop.
RdLoop(w) ==
    /\ workers[w].kind = "read"
    /\ workers[w].pc = "loop"
    /\ LET me == [workers[w] EXCEPT !.cancelled = workers[w].cancel] IN
       IF ~me.cancelled /\ Retries(me.status)
       THEN Set(w, [me EXCEPT !.pc = "read"])
       ELSE IF me.cancelled THEN Set(w, Exit(me))
       ELSE Set(w, [me EXCEPT !.pc = "sentinel"])
    /\ UNCHANGED <<auxVars, devVars, handshake, sendReady, frameVars,
                   jpegBufferSize, sendMutex, receiveWorker, sendWorker, host,
                   render, wire, freed>>

\* The body of the loop: one bulk read on the IN endpoint (500 ms) and,
\* if it succeeded, callback(inputBuffer).
RdRead(w) ==
    /\ workers[w].kind = "read"
    /\ workers[w].pc = "read"
    /\ \E st \in Statuses :
         /\ st = "ok" => workers[w].frames < MaxFrames
         /\ Set(w, [workers[w] EXCEPT
                      !.status = st, !.pc = "loop",
                      !.frames = IF st = "ok" THEN @ + 1 ELSE @,
                      !.arg = IF st = "ok" THEN "data" ELSE @])
    /\ UNCHANGED <<auxVars, devVars, handshake, sendReady, frameVars,
                   jpegBufferSize, sendMutex, receiveWorker, sendWorker, host,
                   render, wire, freed>>

\* callback(nullptr), and the end of the worker.
RdSentinel(w) ==
    /\ workers[w].kind = "read"
    /\ workers[w].pc = "sentinel"
    /\ Set(w, Exit([workers[w] EXCEPT !.calls = @ + 1, !.arg = "nullptr"]))
    /\ UNCHANGED <<auxVars, devVars, handshake, sendReady, frameVars,
                   jpegBufferSize, sendMutex, receiveWorker, sendWorker, host,
                   render, wire, freed>>

\* ------------------------------------------------------ the send worker

\* tjCompress2: the size of the JPEG of a staged image.  A checkerboard
\* of width 8 compresses to one chunk exactly here, any other to one byte
\* more than a chunk.
tjCompress2(buffer, width, height) ==
    IF width = 8 THEN BUFFER_LEN ELSE BUFFER_LEN + 1

\* The predicate of _sendCv.wait, evaluated with the mutex held.
WaitPredicate(w) == sendReady \/ workers[w].cancel

\* if (cancel->load()) after the wait.
\* (variant: a wake-up with a frame pending is taken to be a frame)
ObservesCancelWhenIdle(w) == workers[w].cancel /\ ~sendReady
ObservesCancel(w) == workers[w].cancel

\* unique_lock<mutex> lock(_sendMutex) at the top of an iteration, or the
\* re-acquisition of the mutex by a thread released from wait(); then the
\* predicate of the wait; then, if it holds, the test of the token and,
\* on the encode branch, tjCompress2, which sets _jpegBufferSize.
SwLock(w) ==
    /\ workers[w].kind = "send"
    /\ workers[w].pc \in {"lock", "woken"}
    /\ sendMutex = 0
    /\ sendMutex' = w
    /\ LET me == [workers[w] EXCEPT !.error = FALSE] IN
       IF ~WaitPredicate(w)
       THEN /\ Set(w, [me EXCEPT !.pc = "wait"])
            /\ UNCHANGED jpegBufferSize
       ELSE IF ObservesCancel(w)
       THEN /\ Set(w, [me EXCEPT !.pc = "term"])
            /\ UNCHANGED jpegBufferSize
       ELSE /\ jpegBufferSize' =
                   tjCompress2(rgbImageBuffer, jpegBufferWidth, jpegBufferHeight)
            /\ Set(w, [me EXCEPT !.pc = "header"])
    /\ UNCHANGED <<auxVars, devVars, handshake, sendReady, frameVars,
                   receiveWorker, sendWorker, host, render, wire, freed>>

\* wait(lock) proper, entered after the predicate was found false:
\* release the mutex and block, in one step.
SwWait(w) ==
    /\ workers[w].kind = "send"
    /\ workers[w].pc = "wait"
    /\ sendMutex' = 0
    /\ Set(w, [workers[w] EXCEPT !.pc = "blocked"])
    /\ UNCHANGED <<auxVars, devVars, handshake, sendReady, frameVars,
                   jpegBufferSize, receiveWorker, sendWorker, host, render,
                   wire, freed>>

\* A condition variable may release a waiter without a notify.
SpuriousWake(w) ==
    /\ workers[w].kind = "send"
    /\ workers[w].pc = "blocked"
    /\ Set(w, [workers[w] EXCEPT !.pc = "woken"])
    /\ UNCHANGED <<auxVars, devVars, handshake, sendReady, frameVars,
                   jpegBufferSize, sendMutex, receiveWorker, sendWorker, host,
                   render, wire, freed>>

\* The cancel branch: write four zero bytes, ignore the result, break
\* (which leaves the scope of the lock), and the end of the worker.
SwTerminate(w) ==
    /\ workers[w].kind = "send"
    /\ workers[w].pc = "term"
    /\ \E n \in WrittenCounts(HEADER_LEN) :
         wire' = Written(wire, [kind |-> "term", bytes |-> <<0, 0, 0, 0>>,
                                req |-> HEADER_LEN, written |-> n])
    /\ sendMutex' = 0
    /\ Set(w, Exit([workers[w] EXCEPT !.term = @ + 1]))
    /\ UNCHANGED <<auxVars, devVars, handshake, sendReady, frameVars,
                   jpegBufferSize, receiveWorker, sendWorker, host, render,
                   freed>>

\* written < requested
\* (variant: only a write that transferred nothing counts as failed)
NothingWritten(written, requested) == written = 0
ShortWrite(written, requested) == written < requested

\* One write of the encode branch done: next is another chunk, or the
\* scope of the lock ends and error decides what follows.
AfterWrite(me, more) ==
    IF ~me.error /\ more THEN [me EXCEPT !.pc = "chunk"]
    ELSE [me EXCEPT !.pc = IF me.error THEN "fail" ELSE "clear",
                    !.written = 0, !.chunk = 0, !.i = 0]
Unlock(me) == IF me.pc = "chunk" THEN sendMutex ELSE 0

\* The header write and the test of its result.
SwHeader(w) ==
    /\ workers[w].kind = "send"
    /\ workers[w].pc = "header"
    /\ \E n \in WrittenCounts(HEADER_LEN) :
         /\ wire' = Written(wire, [kind |-> "header",
                                   bytes |-> nativeToBig(jpegBufferSize),
                                   req |-> HEADER_LEN, written |-> n])
         /\ LET me == AfterWrite([workers[w] EXCEPT
                                    !.written = n, !.chunk = HEADER_LEN,
                                    !.i = 0,
                                    !.error = ShortWrite(n, HEADER_LEN)],
                                 0 < jpegBufferSize)
            IN /\ Set(w, me)
               /\ sendMutex' = Unlock(me)
    /\ UNCHANGED <<auxVars, devVars, handshake, sendReady, frameVars,
                   jpegBufferSize, receiveWorker, sendWorker, host, render,
                   freed>>

\* One iteration of the chunk loop: the write, the test of its result,
\* the increment and the loop condition.
SwChunk(w) ==
    /\ workers[w].kind = "send"
    /\ workers[w].pc = "chunk"
    /\ LET chunk == Min(BUFFER_LEN, jpegBufferSize - workers[w].i) IN
       \E n \in WrittenCounts(chunk) :
         /\ wire' = Written(wire, [kind |-> "chunk", bytes |-> <<>>,
                                   req |-> chunk, written |-> n])
         /\ LET me == AfterWrite([workers[w] EXCEPT
                                    !.written = n, !.chunk = chunk,
                                    !.i = @ + BUFFER_LEN,
                                    !.error = ShortWrite(n, chunk)],
                                 workers[w].i + BUFFER_LEN < jpegBufferSize)
            IN /\ Set(w, me)
               /\ sendMutex' = Unlock(me)
    /\ UNCHANGED <<auxVars, devVars, handshake, sendReady, frameVars,
                   jpegBufferSize, receiveWorker, sendWorker, host, render,
                   freed>>

\* failureCallback(); break, and the end of the worker.
SwFail(w) ==
    /\ workers[w].kind = "send"
    /\ workers[w].pc = "fail"
    /\ Set(w, Exit([workers[w] EXCEPT !.calls = @ + 1, !.arg = "failure"]))
    /\ UNCHANGED <<auxVars, devVars, handshake, sendReady, frameVars,
                   jpegBufferSize, sendMutex, receiveWorker, sendWorker, host,
                   render, wire, freed>>

\* _sendReady = false, and back to the top of the loop.
SwClear(w) ==
    /\ workers[w].kind = "send"
    /\ workers[w].pc = "clear"
    /\ sendReady' = FALSE
    /\ Set(w, [workers[w] EXCEPT !.pc = "lock"])
    /\ UNCHANGED <<auxVars, devVars, handshake, frameVars, jpegBufferSize,
                   sendMutex, receiveWorker, sendWorker, host, render, wire,
                   freed>>

\* ------------------------------------------------------- specification

Next ==
    \/ waitHandshakeAsync
    \/ beginReadLoop
    \/ beginSendLoop
    \/ AssignWorker
    \/ Teardown
    \/ TeardownFree
    \/ \E s \in Submissions : SendStereoTryLock(s.data, s.desc)
    \/ SendStereoStage
    \/ SendStereoReturn
    \/ \E w \in WorkerIds : HsFlush(w)
    \/ \E w \in WorkerIds : HsLoop(w)
    \/ \E w \in WorkerIds : HsStore(w)
    \/ \E w \in WorkerIds : HsCallback(w)
    \/ \E w \in WorkerIds : RdLoop(w)
    \/ \E w \in WorkerIds : RdRead(w)
    \/ \E w \in WorkerIds : RdSentinel(w)
    \/ \E w \in WorkerIds : SwLock(w)
    \/ \E w \in WorkerIds : SwWait(w)
    \/ \E w \in WorkerIds : SpuriousWake(w)
    \/ \E w \in WorkerIds : SwTerminate(w)
    \/ \E w \in WorkerIds : SwHeader(w)
    \/ \E w \in WorkerIds : SwChunk(w)
    \/ \E w \in WorkerIds : SwFail(w)
    \/ \E w \in WorkerIds : SwClear(w)

Spec == Init /\ [][Next]_vars

\* ------------------------------------ the handshake verification alone

\* Buffers to verify: the pattern byte[i] = i mod 256 with the byte at one
\* position replaced (by a value that may be the pattern's own).
DeviationAt == {0, 255, 256, 300, BUFFER_LEN - 1}
DeviationVal == {0, 1, 44, 255}
VerifyReads == {0, 512, BUFFER_LEN}

\* inputBuffer[k] of the buffer under verification.
inputBuffer(k) == IF k = verify.at THEN verify.val ELSE k % 256

\* (variant: the offset compared without the cast)
expectedUncast(k) == k
\* unsigned char expected = (unsigned char) i;
expected(k) == k % 256

\* A read has completed without cancellation: bool success = true;
\* if (read == BUFFER_LEN) the scan starts, else success = false.
VerifyBegin ==
    /\ verify.pc = "idle"
    /\ \E a \in DeviationAt, v \in DeviationVal, r \in VerifyReads :
         verify' = [pc |-> IF r = BUFFER_LEN THEN "scan" ELSE "done",
                    at |-> a, val |-> v, read |-> r, i |-> 0,
                    success |-> (r = BUFFER_LEN)]
    /\ UNCHANGED <<mainVars, accessory, scan>>

\* One turn of for (int i = 0; i < BUFFER_LEN; ++i): the loop test, the
\* comparison, and on a mismatch success = false; break.
VerifyScan ==
    /\ verify.pc = "scan"
    /\ verify' =
         IF verify.i < BUFFER_LEN
         THEN IF inputBuffer(verify.i) # expected(verify.i)
              THEN [verify EXCEPT !.success = FALSE, !.pc = "done"]
              ELSE [verify EXCEPT !.i = @ + 1]
         ELSE [verify EXCEPT !.pc = "done"]
    /\ UNCHANGED <<mainVars, accessory, scan>>

VerifyNext == VerifyBegin \/ VerifyScan

VerifySpec == Init /\ [][VerifyNext]_vars

\* ----------------------------------------------- convertToAccessory

\* The two bytes a device may answer request 51 with, low byte first.
VersionBytes ==
    {<<0, 0>>, <<1, 0>>, <<2, 0>>, <<255, 127>>, <<255, 255>>, <<1, 128>>}
ControlStatuses == {"ok", "error"}

\* The int16_t held in two little-endian bytes.
Int16(b) ==
    LET u == b[1] + 256 * b[2] IN IF u >= 32768 THEN u - 65536 ELSE u

\* The strings of convertToAccessory in the order of their indices 0..5.
AccessoryStrings ==
    <<"SiriusCybernetics", "MayaUsb", "Maya USB streaming", "0.42",
      "https://sdao.me", "42">>

\* (variant: any version answered is taken)
AnyProtocol(v) == TRUE
\* protocolVersion < 1 throws.
ProtocolSupported(v) == v >= 1

\* A control transfer handed to libusb.
Request(request, index, str) ==
    [request |-> request, index |-> index, str |-> str]

\* getControlInt16(51) and the test of the version.  A transfer that
\* reports fewer than two bytes leaves data as it was, indeterminate.
AccGetProtocol ==
    /\ accessory.pc = "idle"
    /\ \E st \in ControlStatuses, b \in VersionBytes :
         LET log == Append(accessory.log, Request(51, 0, "")) IN
         accessory' =
           IF st = "error"
           THEN [accessory EXCEPT !.log = log, !.status = st,
                                  !.result = "error", !.pc = "done"]
           ELSE IF ~ProtocolSupported(Int16(b))
           THEN [accessory EXCEPT !.log = log, !.status = st,
                                  !.protocolVersion = Int16(b),
                                  !.result = "error", !.pc = "done"]
           ELSE [accessory EXCEPT !.log = log, !.status = st,
                                  !.protocolVersion = Int16(b),
                                  !.pc = "strings"]
    /\ UNCHANGED <<mainVars, verify, scan>>

\* sendControlString(52, index, str) for the next of the six strings.
AccSendString ==
    /\ accessory.pc = "strings"
    /\ \E st \in ControlStatuses :
         LET log == Append(accessory.log,
                           Request(52, accessory.index,
                                   AccessoryStrings[accessory.index + 1])) IN
         accessory' =
           IF st = "error"
           THEN [accessory EXCEPT !.log = log, !.status = st,
                                  !.result = "error", !.pc = "done"]
           ELSE [accessory EXCEPT !.log = log, !.status = st,
                                  !.index = @ + 1,
                                  !.pc = IF accessory.index = 5 THEN "start"
                                         ELSE "strings"]
    /\ UNCHANGED <<mainVars, verify, scan>>

\* sendControl(53) and the return.
AccStart ==
    /\ accessory.pc = "start"
    /\ \E st \in ControlStatuses :
         accessory' =
           [accessory EXCEPT !.log = Append(@, Request(53, 0, "")),
                             !.status = st,
                             !.result = IF st = "error" THEN "error" ELSE "ok",
                             !.pc = "done"]
    /\ UNCHANGED <<mainVars, verify, scan>>

AccessoryNext == AccGetProtocol \/ AccSendString \/ AccStart

AccessorySpec == Init /\ [][AccessoryNext]_vars

\* ------------------------------------- the constructor's endpoint loop

\* Endpoint descriptors: bEndpointAddress (bit 7 set: IN) and the
\* transfer type held in bmAttributes.
EndpointDescriptors ==
    [bEndpointAddress : {1, 2, 129, 131}, type : {"bulk", "interrupt"}]

RECURSIVE EndpointLists(_)
EndpointLists(n) ==
    IF n = 0 THEN {<<>>}
    ELSE LET shorter == EndpointLists(n - 1) IN
         shorter \cup {Append(l, d) : l \in {x \in shorter : Len(x) = n - 1},
                                      d \in EndpointDescriptors}

\* What a uint8_t member nobody initialised may hold.
Indeterminate == {0, 77}

LIBUSB_ENDPOINT_IN == 128
LIBUSB_ENDPOINT_OUT == 0

\* endpoint.bEndpointAddress & 0b10000000
DirectionBit(address) == ((address \div 128) % 2) * 128

\* The constructor at line 85: _inEndpoint and _outEndpoint are not in
\* the initializer list and have not been assigned.
ScanInit ==
    /\ Constructed
    /\ inEndpoint \in Indeterminate
    /\ outEndpoint \in Indeterminate
    /\ scan \in [pc : {"loop"}, endpoint : EndpointLists(MaxEndpoints), i : {0}]

\* One turn of for (i = 0; i < bNumEndpoints; ++i), or its end.
ScanEndpoint ==
    /\ scan.pc = "loop"
    /\ IF scan.i < Len(scan.endpoint)
       THEN LET endpoint == scan.endpoint[scan.i + 1]
                in == DirectionBit(endpoint.bEndpointAddress) = LIBUSB_ENDPOINT_IN
                out == DirectionBit(endpoint.bEndpointAddress) = LIBUSB_ENDPOINT_OUT
            IN /\ inEndpoint' = IF in THEN endpoint.bEndpointAddress ELSE inEndpoint
               /\ outEndpoint' = IF ~in /\ out THEN endpoint.bEndpointAddress
                                 ELSE outEndpoint
               /\ scan' = [scan EXCEPT !.i = @ + 1]
       ELSE /\ scan' = [scan EXCEPT !.pc = "done"]
            /\ UNCHANGED <<inEndpoint, outEndpoint>>
    /\ UNCHANGED <<handshake, sendReady, frameVars, jpegBufferSize, sendMutex,
                   receiveWorker, sendWorker, workers, host, render, wire,
                   freed, verify, accessory>>

ScanNext == ScanEndpoint

ScanSpec == ScanInit /\ [][ScanNext]_vars

\* ================================================================ claims

SendWorkers == {w \in WorkerIds : workers[w].kind = "send"}
HandshakeWorkers == {w \in WorkerIds : workers[w].kind = "handshake"}
TwoFormats == {"kR32G32B32A32_FLOAT", "kR8G8B8A8_UNORM"}

\* C1: a sendStereo call that finds the mutex held by a send worker returns
\* false and leaves _sendReady, the staging buffer and the recorded size
\* alone; and no call is accepted while a worker is between the start of
\* the compression and the return of its last write.
C1_DropOnBusy ==
    [][ /\ (render.pc = "idle" /\ render'.pc # "idle" /\ sendMutex \in WorkerIds)
           => /\ render'.pc = "busy"
              /\ render'.ret = "false"
              /\ UNCHANGED <<sendReady, frameVars, sendMutex>>
        /\ (render.pc = "busy" /\ render'.pc = "idle")
           => UNCHANGED <<sendReady, frameVars, sendMutex, workers>>
        /\ (render.pc = "locked" /\ render'.ret = "true")
           => \A w \in SendWorkers : workers[w].pc \notin {"header", "chunk"}
      ]_vars

\* A call dropped while a worker is in the middle of the chunks of a frame.
C1_Witness ==
    /\ render.pc = "busy"
    /\ sendReady
    /\ \E w \in SendWorkers : sendMutex = w /\ workers[w].pc = "chunk"

\* C2: with the lock held, a call is accepted only if _sendReady is false
\* (and then sets it); with _sendReady true it returns false and writes
\* neither the buffer nor the size; and _sendReady, once set, stays set
\* until a send worker clears it or beginSendLoop resets it, so that a
\* second call with neither in between is dropped.
C2_SingleSlot ==
    [][ /\ (render.pc = "locked" /\ render'.pc = "unlock")
           => /\ render'.ret = "true"
                 => /\ ~sendReady
                    /\ sendReady'
                    /\ render.desc.fFormat \in TwoFormats
              /\ sendReady
                 => /\ render'.ret = "false"
                    /\ UNCHANGED <<sendReady, frameVars>>
        /\ (sendReady /\ ~sendReady')
           => \/ \E w \in SendWorkers :
                   workers[w].pc = "clear" /\ workers'[w].pc = "lock"
              \/ /\ host.pc = "idle"
                 /\ host'.pc = "assign"
                 /\ workers'[host'.fresh].kind = "send"
      ]_vars

\* A call in a supported format, dropped under the lock because a frame is
\* pending, with the pending frame still in the buffer.
C2_Witness ==
    /\ render.pc = "unlock"
    /\ render.ret = "false"
    /\ render.desc.fFormat \in TwoFormats
    /\ sendReady
    /\ rgbImageBuffer # decomposeCheckerboardStereo(render.desc.fFormat, render.data)
    /\ jpegBufferWidth # render.desc.fWidth

\* C3: no step of a sendStereo call whose format is not one of the two
\* supported ones changes _sendReady, the buffer or the size or wakes a
\* waiter; the call does not return true, and the mutex is not held by
\* the render thread when it has returned.
C3_UnsupportedFormat ==
    [][ LET desc == IF render.pc = "idle" THEN render'.desc ELSE render.desc IN
        (render' # render /\ desc.fFormat \notin TwoFormats)
        => /\ render'.ret # "true"
           /\ UNCHANGED <<sendReady, frameVars, workers>>
           /\ render'.pc = "idle" => sendMutex' # Render
      ]_vars

\* A call in an unsupported format refused under the lock, with no frame
\* pending and a send worker blocked in the wait.
C3_Witness ==
    /\ render.pc = "unlock"
    /\ render.desc.fFormat \notin TwoFormats
    /\ render.ret = "false"
    /\ ~sendReady
    /\ \E w \in SendWorkers : workers[w].pc = "blocked"

\* C4: beginReadLoop and beginSendLoop start a worker, and beginSendLoop
\* resets _sendReady, only with _handshake true and the endpoint non-zero;
\* a call that returns without starting a worker returns false and changes
\* nothing; and whenever a read or send worker exists, a handshake worker
\* has stored success.
C4_HandshakeFirst ==
    /\ [][ /\ Len(workers') > Len(workers)
              => LET kind == workers'[Len(workers')].kind IN
                 /\ kind = "read" => handshake /\ inEndpoint # 0
                 /\ kind = "send" => handshake /\ outEndpoint # 0
           /\ (host.pc = "idle" /\ sendReady' # sendReady /\ host' # host)
              => handshake /\ outEndpoint # 0
           /\ (host.pc = "idle" /\ host'.pc = "idle" /\ host' # host)
              => /\ host'.ret = "false"
                 /\ UNCHANGED <<workers, sendReady, receiveWorker, sendWorker>>
         ]_vars
    /\ [](\A w \in WorkerIds :
            workers[w].kind \in {"read", "send"}
            => \E h \in HandshakeWorkers :
                 workers[h].success /\ workers[h].pc \in {"callback", "done"})

\* Both loops started, after a handshake worker stored success.
C4_Witness ==
    /\ handshake
    /\ \E w, r \in WorkerIds : workers[w].kind = "send" /\ workers[r].kind = "read"

\* C5: the header on the wire is the big-endian length of the JPEG, and
\* nothing but the payload, in chunks of at most BUFFER_LEN bytes and no
\* more than the header announces, follows a header until the whole
\* payload has been written, short writes included.
C5_WireFraming ==
    /\ \A k \in 1..Len(wire) : wire[k].req <= BUFFER_LEN
    /\ (wire # <<>> /\ wire[1].kind = "header")
       => /\ \A w \in SendWorkers :
               workers[w].pc = "chunk" => bigToNative(wire[1].bytes) = jpegBufferSize
          /\ PayloadSent(wire) <= bigToNative(wire[1].bytes)
          /\ \A k \in 2..Len(wire) : wire[k].kind = "chunk"

\* C6 as stated: a send worker whose token is set does not take the encode
\* branch, and leaves having performed exactly one termination write.
C6_CancelTerminates ==
    [][ \A w \in SendWorkers :
          /\ (workers[w].cancel /\ workers[w].pc # "header")
             => workers'[w].pc # "header"
          /\ (workers[w].cancel /\ workers[w].pc # "done" /\ workers'[w].pc = "done")
             => workers'[w].term = 1
      ]_vars

\* C6 as amended: the encode branch is taken only with the token unset at
\* the test after the wait, also with a frame pending; a worker that finds
\* it set there performs one termination write, whatever its result, calls
\* no failureCallback and ends; a worker ends with exactly one termination
\* write unless it ends through the failure path, and then with none.
C6_CancelObserved ==
    /\ [][ \A w \in SendWorkers :
             /\ (workers[w].pc # "header" /\ workers'[w].pc = "header")
                => ~workers[w].cancel
             /\ (workers[w].pc \in {"lock", "woken"} /\ workers[w].cancel
                 /\ workers'[w].pc \notin {"lock", "woken"})
                => workers'[w].pc = "term"
             /\ (workers[w].pc = "term" /\ workers'[w].pc # "term")
                => /\ workers'[w].pc = "done"
                   /\ workers'[w].term = 1
                   /\ workers'[w].calls = 0
                   /\ wire' # wire => wire'[Len(wire')].kind = "term"
         ]_vars
    /\ [](\A w \in SendWorkers :
            /\ workers[w].pc # "done" => workers[w].term = 0
            /\ workers[w].pc = "done"
               => workers[w].term = (IF workers[w].error THEN 0 ELSE 1))

\* A worker that ended through the cancel branch with a frame pending,
\* its termination write short.
C6_Witness ==
    /\ sendReady
    /\ wire # <<>>
    /\ wire[Len(wire)].kind = "term"
    /\ wire[Len(wire)].written < HEADER_LEN
    /\ \E w \in SendWorkers :
         workers[w].pc = "done" /\ workers[w].term = 1 /\ workers[w].calls = 0

\* The steps a scheduled worker thread takes by itself.  A spurious
\* wake-up is not among them: it may happen, nothing makes it happen.
WorkerStep(w) ==
    /\ w \in WorkerIds
    /\ \/ HsFlush(w) \/ HsLoop(w) \/ HsStore(w) \/ HsCallback(w)
       \/ RdLoop(w) \/ RdRead(w) \/ RdSentinel(w)
       \/ SwLock(w) \/ SwWait(w) \/ SwTerminate(w)
       \/ SwHeader(w) \/ SwChunk(w) \/ SwFail(w) \/ SwClear(w)

\* Fair scheduling: every thread that can take a step eventually does.
FairSpec ==
    /\ Spec
    /\ \A w \in 1..MaxWorkers : WF_vars(WorkerStep(w))
    /\ WF_vars(SendStereoStage)
    /\ WF_vars(SendStereoReturn)
    /\ WF_vars(AssignWorker)
    /\ WF_vars(TeardownFree)

\* C7: under fair scheduling, once the destructor has set the token of
\* the send worker and notified the condition variable, that worker
\* eventually ends.
C7_CancelLive ==
    (host.pc \in {"sleep", "destroyed"} /\ sendWorker # 0)
    ~> (sendWorker # 0 /\ workers[sendWorker].pc = "done")

\* C8: when the destructor has released the buffers and the handle, every
\* worker ever started has ended.
C8_WorkersStopped ==
    freed => \A w \in WorkerIds : workers[w].pc = "done"

\* C9: a send worker goes on to the next write only after a write that
\* transferred all it asked for; after a short one it writes no more,
\* calls failureCallback once, leaves _sendReady alone, writes no
\* termination frame and ends; failureCallback is not called otherwise.
C9_SendFailure ==
    /\ [][ \A w \in SendWorkers :
             /\ (workers[w].pc \in {"header", "chunk"} /\ wire' # wire
                 /\ wire'[Len(wire')].written < wire'[Len(wire')].req)
                => workers'[w].error /\ workers'[w].pc = "fail"
             /\ (workers'[w].error /\ workers'[w].pc # workers[w].pc)
                => /\ UNCHANGED <<sendReady, wire>> \/ workers[w].pc \in {"header", "chunk"}
                   /\ UNCHANGED sendReady
                   /\ workers'[w].pc \in {"fail", "done"}
         ]_vars
    /\ [](\A w \in SendWorkers :
            /\ workers[w].pc = "chunk"
               => ~workers[w].error /\ workers[w].written = workers[w].chunk
            /\ workers[w].error => workers[w].pc \in {"fail", "done"} /\ workers[w].term = 0
            /\ workers[w].calls = (IF workers[w].error /\ workers[w].pc = "done" THEN 1 ELSE 0))

\* A worker ended after a short chunk write, failureCallback called once,
\* the frame still marked pending.
C9_Witness ==
    /\ sendReady
    /\ wire # <<>>
    /\ wire[Len(wire)].kind = "chunk"
    /\ wire[Len(wire)].written < wire[Len(wire)].req
    /\ \E w \in SendWorkers :
         /\ workers[w].pc = "done"
         /\ workers[w].error
         /\ workers[w].calls = 1
         /\ workers[w].arg = "failure"

\* C10: a handshake worker calls the callback at most once; it leaves the
\* loop for the store only after a read with a status other than timeout
\* and with cancellation not seen, computes the result from the count and
\* the bytes read, stores it in _handshake in the step before the
\* callback, passes it to the callback, and ends with its token set; a
\* worker that saw cancellation ends without a call.
C10_HandshakeCallback ==
    /\ [][ \A w \in HandshakeWorkers :
             /\ (workers[w].pc = "loop" /\ workers'[w].pc = "store")
                => /\ workers[w].status \in {"ok", "error"}
                   /\ ~workers[w].cancel
                   /\ workers'[w].success =
                        (workers[w].read = BUFFER_LEN /\ workers[w].match)
             /\ (workers[w].pc # "callback" /\ workers'[w].pc = "callback")
                => workers[w].pc = "store" /\ handshake' = workers[w].success
             /\ workers'[w].calls # workers[w].calls
                => /\ workers[w].pc = "callback"
                   /\ workers'[w].calls = 1
                   /\ workers'[w].arg = (IF workers[w].success THEN "true" ELSE "false")
                   /\ workers'[w].pc = "done"
         ]_vars
    /\ [](\A w \in HandshakeWorkers :
            /\ workers[w].calls <= 1
            /\ workers[w].pc = "done"
               => /\ workers[w].cancel
                  /\ workers[w].calls = (IF workers[w].cancelled THEN 0 ELSE 1))

\* The callback delivered true, once, by a worker that has ended, the
\* flag holding the result.
C10_Witness ==
    /\ handshake
    /\ \E w \in HandshakeWorkers :
         /\ workers[w].pc = "done"
         /\ workers[w].calls = 1
         /\ workers[w].arg = "true"
         /\ ~workers[w].cancelled

ReceiveWorkers == {w \in WorkerIds : workers[w].kind \in {"handshake", "read"}}

\* C11: a handshake or read-loop worker whose token is set while every
\* transfer so far has timed out and no callback has been made never
\* invokes the callback, with a result, with data or with the sentinel.
C11_CancelledSilent ==
    [][ \A w \in ReceiveWorkers :
          (workers[w].cancel /\ workers[w].status = "timeout"
           /\ workers[w].arg = "none" /\ workers[w].calls = 0)
          => (workers'[w].arg = "none" /\ workers'[w].calls = 0)
      ]_vars

\* C12: the result of a completed handshake verification is true exactly
\* if read is BUFFER_LEN and the byte at every offset k of the buffer is
\* k mod 256, which is also the result of a scan that does not stop at
\* the first mismatch.
C12_VerifyIsPattern ==
    verify.pc = "done"
    => verify.success =
         (/\ verify.read = BUFFER_LEN
          /\ \A k \in 0..(BUFFER_LEN - 1) : inputBuffer(k) = k % 256)

\* A full buffer carrying the pattern, wrapped 64 times, found good.
C12_Witness ==
    /\ verify.pc = "done"
    /\ verify.success
    /\ verify.i = BUFFER_LEN

\* What a complete conversion requests: 51, six times 52 with the indices
\* 0..5, then 53.
AccessoryRequests == <<51, 52, 52, 52, 52, 52, 52, 53>>
AccessoryIndices == <<0, 0, 1, 2, 3, 4, 5, 0>>

\* C13: the requests issued are always a prefix of 51, 52[0..5], 53, each
\* once and in that order; a version below 1 ends the call with an error
\* after request 51 alone; a failed transfer ends it with an error at
\* once; it succeeds only with all eight requests made; and once it has
\* ended nothing more is requested.
C13_AccessorySequence ==
    /\ [](/\ Len(accessory.log) <= 8
          /\ \A k \in 1..Len(accessory.log) :
               /\ accessory.log[k].request = AccessoryRequests[k]
               /\ accessory.log[k].index = AccessoryIndices[k]
          /\ accessory.status = "error"
             => accessory.result = "error" /\ accessory.pc = "done"
          /\ (accessory.log # <<>> /\ accessory.status = "ok"
              /\ accessory.protocolVersion < 1)
             => /\ accessory.result = "error"
                /\ Len(accessory.log) = 1
          /\ accessory.result = "ok" => Len(accessory.log) = 8
          /\ (accessory.result = "error" /\ accessory.status = "ok")
             => accessory.protocolVersion < 1)
    /\ [][accessory.result # "none" => accessory' = accessory]_vars

\* A conversion that went through with all eight requests.
C13_Witness ==
    /\ accessory.result = "ok"
    /\ accessory.protocolVersion = 2
    /\ Len(accessory.log) = 8
    /\ accessory.log[7].str = "42"

ReadWorkers == {w \in WorkerIds : workers[w].kind = "read"}

\* C14: in a read-loop worker a transfer that succeeds is followed by one
\* callback with the buffer, one that times out or fails by none; the
\* loop goes on after success and timeout; after another status, with
\* cancellation not seen at the loop condition, the worker makes one
\* callback with nullptr and ends; with cancellation seen it ends with
\* no such callback.
C14_ReadOutcomes ==
    /\ [][ \A w \in ReadWorkers :
             /\ (workers[w].pc = "read" /\ workers'[w].pc = "loop")
                => /\ workers'[w].calls = workers[w].calls
                   /\ IF workers'[w].status = "ok"
                      THEN /\ workers'[w].frames = workers[w].frames + 1
                           /\ workers'[w].arg = "data"
                      ELSE /\ workers'[w].frames = workers[w].frames
                           /\ workers'[w].arg = workers[w].arg
             /\ workers'[w].frames # workers[w].frames
                => workers[w].pc = "read"
             /\ (workers[w].pc = "loop" /\ workers'[w].pc # "loop")
                => workers'[w].pc =
                     (IF workers[w].cancel THEN "done"
                      ELSE IF workers[w].status \in {"ok", "timeout"} THEN "read"
                      ELSE "sentinel")
             /\ workers'[w].calls # workers[w].calls
                => /\ workers[w].pc = "sentinel"
                   /\ workers'[w].calls = 1
                   /\ workers'[w].arg = "nullptr"
                   /\ workers'[w].pc = "done"
             /\ workers[w].pc = "sentinel"
                => workers'[w].pc \in {"sentinel", "done"}
         ]_vars
    /\ [](\A w \in ReadWorkers :
            /\ workers[w].pc = "sentinel"
               => workers[w].status = "error" /\ ~workers[w].cancelled
            /\ workers[w].calls = (IF workers[w].pc = "done" /\ ~workers[w].cancelled
                                   THEN 1 ELSE 0))

\* A read loop that delivered two buffers, then met an error, delivered
\* the sentinel and ended.
C14_Witness ==
    \E w \in ReadWorkers :
      /\ workers[w].pc = "done"
      /\ workers[w].frames = 2
      /\ workers[w].status = "error"
      /\ workers[w].calls = 1
      /\ workers[w].arg = "nullptr"

\* The address of the first bulk endpoint of a direction in a list, 0 if
\* there is none.
FirstBulk(list, direction) ==
    LET hits == {k \in 1..Len(list) :
                   /\ list[k].type = "bulk"
                   /\ DirectionBit(list[k].bEndpointAddress) = direction}
    IN IF hits = {} THEN 0
       ELSE list[CHOOSE k \in hits : \A j \in hits : k <= j].bEndpointAddress

\* C15: when the endpoint loop has ended, _inEndpoint is the address of
\* the first IN bulk endpoint of the list and _outEndpoint that of the
\* first OUT bulk endpoint, each 0 if the list has none.
C15_FirstBulkEndpoints ==
    scan.pc = "done"
    => /\ inEndpoint = FirstBulk(scan.endpoint, LIBUSB_ENDPOINT_IN)
       /\ outEndpoint = FirstBulk(scan.endpoint, LIBUSB_ENDPOINT_OUT)

\* Threads that have not reached their end.
Running(ws) == {w \in ws : workers[w].pc # "done"}

\* Workers whose InterruptibleThread has been replaced in its member.
Replaced ==
    {w \in WorkerIds :
       /\ w \notin {receiveWorker, sendWorker}
       /\ ~(host.pc = "assign" /\ host.fresh = w)}

\* C16: at most one handshake or read-loop thread and at most one send
\* thread are running at any time, and a replaced worker writes nothing
\* to the OUT endpoint and makes no callback.
C16_OneWorkerPerDirection ==
    /\ [](/\ Cardinality(Running(ReceiveWorkers)) <= 1
          /\ Cardinality(Running(SendWorkers)) <= 1)
    /\ [][ \A w \in Replaced :
             workers'[w] # workers[w]
             => /\ wire' = wire
                /\ workers'[w].calls = workers[w].calls
                /\ workers'[w].frames = workers[w].frames
         ]_vars

\* C17: _sendReady and the staging buffer change only in a step of the
\* thread that holds _sendMutex: the flag becomes true only by the render
\* thread inside sendStereo, and false only by a send worker, which has
\* by then written the frame it encoded.
C17_FlagUnderMutex ==
    [][ /\ (sendReady' # sendReady \/ rgbImageBuffer' # rgbImageBuffer)
           => sendMutex # 0
        /\ (~sendReady /\ sendReady')
           => sendMutex = Render /\ render.pc = "locked"
        /\ (sendReady /\ ~sendReady')
           => /\ sendMutex \in SendWorkers
              /\ workers[sendMutex].pc = "clear"
              /\ workers'[sendMutex].pc # "clear"
      ]_vars

\* Handshake workers that have executed _handshake.store.
HasStored == {w \in HandshakeWorkers : workers[w].pc = "callback" \/ workers[w].calls = 1}

\* C18 as stated: _handshake is stored into at most once in the life of
\* the instance, and by a handshake worker only.
C18_WrittenOnce ==
    /\ [](Cardinality(HasStored) <= 1)
    /\ [][ handshake' # handshake
           => \E w \in HandshakeWorkers :
                workers[w].pc = "store" /\ workers'[w].pc = "callback"
         ]_vars

\* C18 as amended: _handshake changes only in the store of a handshake
\* worker, to that worker's result; a worker stores at most once, and
\* not at all if it saw cancellation; no other step stores.
C18_WrittenByWorkers ==
    /\ [][ /\ handshake' # handshake
              => \E w \in HandshakeWorkers :
                   /\ workers[w].pc = "store"
                   /\ workers'[w].pc = "callback"
                   /\ handshake' = workers[w].success
           /\ \A w \in HandshakeWorkers :
                /\ w \in HasStored => workers'[w].pc \in {"callback", "done"}
                /\ (workers[w].pc # "callback" /\ workers'[w].pc = "callback")
                   => workers[w].pc = "store" /\ ~workers[w].cancelled
         ]_vars
    /\ [](\A w \in HandshakeWorkers :
            workers[w].cancelled => w \notin HasStored)

\* A failed handshake followed by a second waitHandshakeAsync whose
\* worker stored true: two stores in one instance.
C18_Witness ==
    /\ handshake
    /\ \E v, w \in HasStored :
         /\ v < w
         /\ workers[v].pc = "done" /\ workers[v].arg = "false"
         /\ workers[w].pc = "done" /\ workers[w].arg = "true"

\* Read-loop and send workers that have not reached their end.
Streaming == Running({w \in WorkerIds : workers[w].kind \in {"read", "send"}})

\* C19: once _handshake is true it stays true, and no read-loop or send
\* worker is running while it is false.
C19_HandshakeStable ==
    /\ [][handshake => handshake']_vars
    /\ [](~handshake => Streaming = {})

\* The send worker started by the latest beginSendLoop call, 0 if none.
LatestSendWorker ==
    IF host.pc = "assign" /\ workers[host.fresh].kind = "send"
    THEN host.fresh ELSE sendWorker

\* C20: an accepted frame does not stay behind with the latest send
\* worker, running and not cancelled, blocked in its condition wait, no
\* notification on its way and every other send worker ended or blocked:
\* from there only a spurious wake-up would let the frame be
\* transmitted, and every later sendStereo is dropped.
C20_AcceptedProgress ==
    ~(/\ sendReady
      /\ render.pc = "idle"
      /\ LatestSendWorker # 0
      /\ workers[LatestSendWorker].pc = "blocked"
      /\ ~workers[LatestSendWorker].cancel
      /\ \A w \in SendWorkers : workers[w].pc \in {"done", "blocked"})

====
